---- MODULE Spec2Model ----
(***************************************************************************)
(* Model of gravatar/templatetags/gravatar.py: the Gravatar template tags. *)
(*                                                                         *)
(* Python values are tagged records (None, int, str, User, parsed JSON).   *)
(* A Python string is a sequence of chunks: one-character strings, plus a  *)
(* few multi-character atoms for literals of the source (the URL prefix,   *)
(* "avatar/", the pieces of the img format string) and for an md5 digest.  *)
(* One call of a template tag is one action; the state after it holds the  *)
(* call, its result (a value or the exception raised), the user lookups    *)
(* and the outbound requests the call made.                                *)
(***************************************************************************)
EXTENDS Integers, Sequences, FiniteSets, TLC

VARIABLES settings, pc, call, result, lookups, requests, response

vars == <<settings, pc, call, result, lookups, requests, response>>

----------------------------------------------------------------------------
(* Bounds *)

\* longest email address drawn as an input
MaxEmailLen == 2
\* largest explicit size drawn as an input (sizes are 0..MaxSize)
MaxSize == 6

\* GRAVATAR_DEFAULT_SIZE when the settings module does not set it
DefaultSize == 80

----------------------------------------------------------------------------
(* Python values *)

None == [t |-> "None"]
IntV(i) == [t |-> "int", i |-> i]
StrV(s) == [t |-> "str", s |-> s]

Ok(v) == [ok |-> TRUE, val |-> v]
Raise(e) == [ok |-> FALSE, exc |-> e]

\* bool(v): None, 0 and "" are falsy
Truthy(v) ==
    CASE v.t = "None" -> FALSE
      [] v.t = "int" -> v.i # 0
      [] v.t = "str" -> v.s # <<>>
      [] OTHER -> TRUE

\* a or b
PyOr(a, b) == IF Truthy(a) THEN a ELSE b

Digit(d) == <<"0", "1", "2", "3", "4", "5", "6", "7", "8", "9">>[d + 1]

RECURSIVE Digits(_)
Digits(n) == IF n < 10 THEN <<Digit(n)>> ELSE Digits(n \div 10) \o <<Digit(n % 10)>>

\* str(v) / '%s' % v for None, non-negative int and str
PyStr(v) ==
    CASE v.t = "None" -> <<"N", "o", "n", "e">>
      [] v.t = "int" -> Digits(v.i)
      [] v.t = "str" -> v.s

\* v * k: TypeError for None
PyMul(v, k) ==
    IF v.t = "int" THEN Ok(IntV(v.i * k))
    ELSE Raise("TypeError")

Range(s) == {s[i] : i \in 1..Len(s)}

RECURSIVE Concat(_)
Concat(ss) == IF ss = <<>> THEN <<>> ELSE Head(ss) \o Concat(Tail(ss))

RECURSIVE Join(_, _)
Join(ss, sep) ==
    IF ss = <<>> THEN <<>>
    ELSE IF Len(ss) = 1 THEN ss[1]
    ELSE ss[1] \o sep \o Join(Tail(ss), sep)

RECURSIVE Flat(_)
Flat(s) == IF s = <<>> THEN "" ELSE Head(s) \o Flat(Tail(s))

----------------------------------------------------------------------------
(* Library functions the module calls *)

LowerChar(c) == IF c = "A" THEN "a" ELSE IF c = "B" THEN "b" ELSE c
UpperChar(c) == IF c = "a" THEN "A" ELSE IF c = "b" THEN "B" ELSE c

\* str.lower()
lower(s) == [i \in 1..Len(s) |-> LowerChar(s[i])]
\* str.upper()
upper(s) == [i \in 1..Len(s) |-> UpperChar(s[i])]

\* hashlib.md5(bytes).hexdigest(): one atom per distinct input (the digest
\* is taken as injective; its 32 hex characters are not computed)
md5_hexdigest(bytes) == <<"md5(" \o Flat(bytes) \o ")">>

PercentCode ==
    (" " :> <<"%", "2", "0">>) @@ ("\"" :> <<"%", "2", "2">>) @@
    ("%" :> <<"%", "2", "5">>) @@ ("&" :> <<"%", "2", "6">>) @@
    ("+" :> <<"%", "2", "B">>) @@ ("/" :> <<"%", "2", "F">>) @@
    (":" :> <<"%", "3", "A">>) @@ ("=" :> <<"%", "3", "D">>) @@
    ("?" :> <<"%", "3", "F">>) @@ ("@" :> <<"%", "4", "0">>)

\* the characters of the model outside urllib's always_safe set
\* (letters, digits, "_.-"); every other chunk is always safe
Specials == DOMAIN PercentCode

HexChars == {"0", "1", "2", "3", "4", "5", "6", "7", "8", "9",
             "a", "b", "c", "d", "e", "f", "A", "B", "C", "D", "E", "F"}

\* urllib.quote(s, safe)
quote(s, safe) ==
    Concat([i \in 1..Len(s) |->
        IF s[i] \in Specials /\ s[i] \notin safe THEN PercentCode[s[i]] ELSE <<s[i]>>])

\* urllib.quote_plus(s): spaces become "+", nothing else is safe
quote_plus(s) ==
    IF " " \in Range(s)
    THEN LET q == quote(s, {" "})
         IN [i \in 1..Len(q) |-> IF q[i] = " " THEN "+" ELSE q[i]]
    ELSE quote(s, {})

\* urllib.urlencode(query, doseq=True) for pairs <<key, value>> whose values
\* are str or int
urlencode(query) ==
    Join([i \in 1..Len(query) |->
            quote_plus(query[i][1]) \o <<"=">> \o quote_plus(PyStr(query[i][2]))],
         <<"&">>)

\* django.utils.html.unquoted_percents_re: a % not followed by two hex digits
UnquotedPercent(url) ==
    \E i \in 1..Len(url) :
        /\ url[i] = "%"
        /\ ~(i + 2 <= Len(url) /\ url[i + 1] \in HexChars /\ url[i + 2] \in HexChars)

SmartSafe == {"!", "*", "'", "(", ")", ";", ":", "@", "&", "=", "+", "$", ",",
              "/", "?", "#", "[", "]", "~"}

\* django.utils.html.smart_urlquote(url): quotes a URL that is not quoted yet
smart_urlquote(url) ==
    IF "%" \notin Range(url) \/ UnquotedPercent(url)
    THEN quote(url, SmartSafe)
    ELSE url

\* django.utils.simplejson.load on a response body
simplejson_load(body) ==
    CASE body = <<"{", "}">> -> Ok([t |-> "dict", items |-> <<>>])
      [] body = <<"[", "]">> -> Ok([t |-> "list", items |-> <<>>])
      [] body = <<"n", "u", "l", "l">> -> Ok(None)
      [] OTHER -> Raise("ValueError")

----------------------------------------------------------------------------
(* Inputs and environment *)

EmailChars == {"a", "A", "@"}

\* the email addresses drawn as inputs
Emails == UNION {[1..k -> EmailChars] : k \in 1..MaxEmailLen}

\* size arguments: unspecified (None) or an int
SizeArgs == {None} \cup {IntV(i) : i \in 0..MaxSize}

\* rating arguments: unspecified, empty, a Gravatar rating, and a string
\* outside g/pg/r/x that needs url-encoding
RatingArgs == {None, StrV(<<>>), StrV(<<"p", "g">>), StrV(<<"r", "&", " ">>)}

User(username, email) == [t |-> "User", username |-> username, email |-> email]

\* the rows of the user model (User.objects)
UserTable == {User(<<"j", "t">>, <<"A", "@", "b">>), User(<<"B">>, <<"b", "@", "a">>)}

\* user arguments: a User instance, the username of one, or an unknown username
UserArgs == UserTable \cup {StrV(u.username) : u \in UserTable} \cup {StrV(<<"n", "o">>)}

\* what urllib.urlopen meets: a network failure, or a response with a body
Responses ==
    {[kind |-> "IOError"]} \cup
    {[kind |-> "body", body |-> b] :
        b \in {<<"{", "}">>, <<"n", "u", "l", "l">>, <<"{">>, <<>>}}

\* the values the settings module may give the five GRAVATAR_* names
SettingsSpace ==
    [GRAVATAR_URL_PREFIX : {<<"http://www.gravatar.com/">>},
     GRAVATAR_DEFAULT_IMAGE : {<<>>, <<"m", "m">>, <<"h", ":", "/", "i">>},
     GRAVATAR_DEFAULT_RATING : {StrV(<<"g">>), StrV(<<>>)},
     GRAVATAR_DEFAULT_SIZE : {IntV(DefaultSize), IntV(0)},
     GRAVATAR_IMG_CLASS : {<<"gravatar">>, <<>>}]

GRAVATAR_URL_PREFIX == settings.GRAVATAR_URL_PREFIX
GRAVATAR_DEFAULT_IMAGE == StrV(settings.GRAVATAR_DEFAULT_IMAGE)
GRAVATAR_DEFAULT_RATING == settings.GRAVATAR_DEFAULT_RATING
GRAVATAR_DEFAULT_SIZE == settings.GRAVATAR_DEFAULT_SIZE
GRAVATAR_IMG_CLASS == settings.GRAVATAR_IMG_CLASS

----------------------------------------------------------------------------
(* The functions of gravatar.py.  A function that can raise, look a user   *)
(* up or open a URL returns an outcome: its result (Ok or Raise), the      *)
(* usernames it looked up and the URLs it opened, in order.                *)

Outcome(res, lk, rq) == [res |-> res, lookups |-> lk, requests |-> rq]

\* the class attribute emitted whatever GRAVATAR_IMG_CLASS holds
_imgclass_attr_always == <<" class=\"">> \o GRAVATAR_IMG_CLASS \o <<"\"">>

_imgclass_attr ==
    IF GRAVATAR_IMG_CLASS # <<>>
    THEN <<" class=\"">> \o GRAVATAR_IMG_CLASS \o <<"\"">>
    ELSE <<>>

_wrap_img_tag(url, info, size) ==
    <<"<img", " src=\"">> \o smart_urlquote(url) \o <<"\"">> \o _imgclass_attr
        \o <<" alt=\"", "Avatar for ">> \o info \o <<"\"">>
        \o <<" height=\"">> \o PyStr(size) \o <<"\"">>
        \o <<" width=\"">> \o PyStr(size) \o <<"\"", "/>">>

_get_user(user) ==
    IF user.t # "User"
    THEN IF \E u \in UserTable : u.username = user.s
         THEN Outcome(Ok(CHOOSE u \in UserTable : u.username = user.s), <<user.s>>, <<>>)
         ELSE Outcome(Raise("Exception: Bad user for gravatar."), <<user.s>>, <<>>)
    ELSE Outcome(Ok(user), <<>>, <<>>)

\* the digest of the email as given, not lower-cased
_get_gravatar_id_as_given(email) == md5_hexdigest(email)

_get_gravatar_id(email) == md5_hexdigest(lower(email))

gravatar_id_for_email(email) == _get_gravatar_id(email)

gravatar_id_for_user(user) ==
    LET u == _get_user(user)
    IN IF u.res.ok
       THEN Outcome(Ok(StrV(gravatar_id_for_email(u.res.val.email))), u.lookups, <<>>)
       ELSE u

\* parameters without the "if p[1]" filter
parameters_unfiltered(size, rating) ==
    << <<<<"d">>, GRAVATAR_DEFAULT_IMAGE>>,
       <<<<"s">>, PyOr(size, GRAVATAR_DEFAULT_SIZE)>>,
       <<<<"r">>, PyOr(rating, GRAVATAR_DEFAULT_RATING)>> >>

\* parameters with the defaults substituted for None only, not for 0 and ""
parameters_none_only(size, rating) ==
    SelectSeq(<< <<<<"d">>, GRAVATAR_DEFAULT_IMAGE>>,
                 <<<<"s">>, IF size = None THEN GRAVATAR_DEFAULT_SIZE ELSE size>>,
                 <<<<"r">>, IF rating = None THEN GRAVATAR_DEFAULT_RATING ELSE rating>> >>,
              LAMBDA p : Truthy(p[2]))

\* the list comprehension of lines 82-86
parameters(size, rating) ==
    SelectSeq(<< <<<<"d">>, GRAVATAR_DEFAULT_IMAGE>>,
                 <<<<"s">>, PyOr(size, GRAVATAR_DEFAULT_SIZE)>>,
                 <<<<"r">>, PyOr(rating, GRAVATAR_DEFAULT_RATING)>> >>,
              LAMBDA p : Truthy(p[2]))

gravatar_for_email(email, size, rating) ==
    LET gravatar_url == GRAVATAR_URL_PREFIX \o <<"avatar/">> \o _get_gravatar_id(email)
        params == parameters(size, rating)
    IN smart_urlquote(IF params # <<>>
                      THEN gravatar_url \o <<"?">> \o urlencode(params)
                      ELSE gravatar_url)

gravatar_for_user(user, size, rating) ==
    LET u == _get_user(user)
    IN IF u.res.ok
       THEN Outcome(Ok(StrV(gravatar_for_email(u.res.val.email, size, rating))),
                    u.lookups, <<>>)
       ELSE u

\* the retina tag with the URL built from size, not size*2
gravatar_retina_img_for_email_undoubled(email, size, rating) ==
    IF ~PyMul(size, 2).ok THEN Outcome(PyMul(size, 2), <<>>, <<>>)
    ELSE Outcome(Ok(StrV(_wrap_img_tag(gravatar_for_email(email, size, rating),
                                       email, size))),
                 <<>>, <<>>)

gravatar_retina_img_for_email(email, size, rating) ==
    LET doubled == PyMul(size, 2)
    IN IF ~doubled.ok THEN Outcome(doubled, <<>>, <<>>)
       ELSE Outcome(Ok(StrV(_wrap_img_tag(gravatar_for_email(email, doubled.val, rating),
                                          email, size))),
                    <<>>, <<>>)

\* user.username: AttributeError on a str
Username(user) ==
    IF user.t = "User" THEN Ok(user.username) ELSE Raise("AttributeError")

gravatar_retina_img_for_user(user, size, rating) ==
    LET doubled == PyMul(size, 2)
    IN IF ~doubled.ok THEN Outcome(doubled, <<>>, <<>>)
       ELSE LET g == gravatar_for_user(user, doubled.val, rating)
                n == Username(user)
            IN IF ~g.res.ok THEN g
               ELSE IF ~n.ok THEN Outcome(n, g.lookups, <<>>)
               ELSE Outcome(Ok(StrV(_wrap_img_tag(g.res.val.s, n.val, size))),
                            g.lookups, <<>>)

gravatar_img_for_email(email, size, rating) ==
    Outcome(Ok(StrV(_wrap_img_tag(gravatar_for_email(email, size, rating), email, size))),
            <<>>, <<>>)

gravatar_img_for_user(user, size, rating) ==
    LET g == gravatar_for_user(user, size, rating)
        n == Username(user)
    IN IF ~g.res.ok THEN g
       ELSE IF ~n.ok THEN Outcome(n, g.lookups, <<>>)
       ELSE Outcome(Ok(StrV(_wrap_img_tag(g.res.val.s, n.val, size))), g.lookups, <<>>)

\* the profile fetch opening the URL a second time after a network failure
gravatar_profile_for_email_retry(email, resp) ==
    LET gravatar_url == GRAVATAR_URL_PREFIX \o _get_gravatar_id(email) \o <<".json">>
    IN IF resp.kind = "IOError"
       THEN Outcome(Raise("IOError"), <<>>, <<gravatar_url, gravatar_url>>)
       ELSE Outcome(simplejson_load(resp.body), <<>>, <<gravatar_url>>)

\* resp is what the one urllib.urlopen call meets
gravatar_profile_for_email(email, resp) ==
    LET gravatar_url == GRAVATAR_URL_PREFIX \o _get_gravatar_id(email) \o <<".json">>
    IN IF resp.kind = "IOError"
       THEN Outcome(Raise("IOError"), <<>>, <<gravatar_url>>)
       ELSE Outcome(simplejson_load(resp.body), <<>>, <<gravatar_url>>)

gravatar_profile_for_user(user, resp) ==
    LET u == _get_user(user)
    IN IF u.res.ok
       THEN LET p == gravatar_profile_for_email(u.res.val.email, resp)
            IN Outcome(p.res, u.lookups, p.requests)
       ELSE u

----------------------------------------------------------------------------
(* The state machine: a template renders one tag at a time *)

NoCall == [op |-> "none"]
NoResponse == [kind |-> "none"]

Init ==
    /\ settings \in SettingsSpace
    /\ pc = "idle"
    /\ call = NoCall
    /\ result = None
    /\ lookups = <<>>
    /\ requests = <<>>
    /\ response = NoResponse

\* the tag op, called with arguments a, size, rating, ends with outcome o
Returns(op, a, size, rating, o, resp) ==
    /\ call' = [op |-> op, a |-> a, size |-> size, rating |-> rating]
    /\ result' = o.res
    /\ lookups' = o.lookups
    /\ requests' = o.requests
    /\ response' = resp
    /\ pc' = "returned"
    /\ UNCHANGED settings

GravatarIdForEmail ==
    /\ pc = "idle" \/ call.op = "gravatar_id_for_email"
    /\ \E email \in Emails :
        Returns("gravatar_id_for_email", StrV(email), None, None,
                Outcome(Ok(StrV(gravatar_id_for_email(email))), <<>>, <<>>), NoResponse)

GravatarIdForUser ==
    /\ pc = "idle"
    /\ \E user \in UserArgs :
        Returns("gravatar_id_for_user", user, None, None,
                gravatar_id_for_user(user), NoResponse)

GravatarForEmail ==
    /\ pc = "idle"
    /\ \E email \in Emails, size \in SizeArgs, rating \in RatingArgs :
        Returns("gravatar_for_email", StrV(email), size, rating,
                Outcome(Ok(StrV(gravatar_for_email(email, size, rating))), <<>>, <<>>),
                NoResponse)

GravatarForUser ==
    /\ pc = "idle"
    /\ \E user \in UserArgs, size \in SizeArgs, rating \in RatingArgs :
        Returns("gravatar_for_user", user, size, rating,
                gravatar_for_user(user, size, rating), NoResponse)

GravatarRetinaImgForEmail ==
    /\ pc = "idle"
    /\ \E email \in Emails, size \in SizeArgs, rating \in RatingArgs :
        Returns("gravatar_retina_img_for_email", StrV(email), size, rating,
                gravatar_retina_img_for_email(email, size, rating), NoResponse)

GravatarRetinaImgForUser ==
    /\ pc = "idle"
    /\ \E user \in UserArgs, size \in SizeArgs, rating \in RatingArgs :
        Returns("gravatar_retina_img_for_user", user, size, rating,
                gravatar_retina_img_for_user(user, size, rating), NoResponse)

GravatarImgForEmail ==
    /\ pc = "idle"
    /\ \E email \in Emails, size \in SizeArgs, rating \in RatingArgs :
        Returns("gravatar_img_for_email", StrV(email), size, rating,
                gravatar_img_for_email(email, size, rating), NoResponse)

GravatarImgForUser ==
    /\ pc = "idle"
    /\ \E user \in UserArgs, size \in SizeArgs, rating \in RatingArgs :
        Returns("gravatar_img_for_user", user, size, rating,
                gravatar_img_for_user(user, size, rating), NoResponse)

GravatarProfileForEmail ==
    /\ pc = "idle"
    /\ \E email \in Emails, resp \in Responses :
        Returns("gravatar_profile_for_email", StrV(email), None, None,
                gravatar_profile_for_email(email, resp), resp)

GravatarProfileForUser ==
    /\ pc = "idle"
    /\ \E user \in UserArgs, resp \in Responses :
        Returns("gravatar_profile_for_user", user, None, None,
                gravatar_profile_for_user(user, resp), resp)

\* the template engine takes the result; nothing of the call is kept
NextTag ==
    /\ pc = "returned"
    /\ pc' = "idle"
    /\ call' = NoCall
    /\ result' = None
    /\ lookups' = <<>>
    /\ requests' = <<>>
    /\ response' = NoResponse
    /\ UNCHANGED settings

Next ==
    \/ GravatarIdForEmail
    \/ GravatarIdForUser
    \/ GravatarForEmail
    \/ GravatarForUser
    \/ GravatarRetinaImgForEmail
    \/ GravatarRetinaImgForUser
    \/ GravatarImgForEmail
    \/ GravatarImgForUser
    \/ GravatarProfileForEmail
    \/ GravatarProfileForUser
    \/ NextTag

Spec == Init /\ [][Next]_vars

----------------------------------------------------------------------------
(* Reading a URL and an img tag back *)

Count(s, c) == Cardinality({i \in 1..Len(s) : s[i] = c})

\* the first index of chunk c in s, 0 when absent
IndexOf(s, c) ==
    IF c \in Range(s)
    THEN CHOOSE i \in 1..Len(s) : s[i] = c /\ \A j \in 1..(i - 1) : s[j] # c
    ELSE 0

Before(s, c) == IF IndexOf(s, c) = 0 THEN s ELSE SubSeq(s, 1, IndexOf(s, c) - 1)
After(s, c) == IF IndexOf(s, c) = 0 THEN <<>> ELSE SubSeq(s, IndexOf(s, c) + 1, Len(s))

RECURSIVE Split(_, _)
Split(s, sep) ==
    IF IndexOf(s, sep) = 0 THEN <<s>>
    ELSE <<Before(s, sep)>> \o Split(After(s, sep), sep)

\* the key=value segments of a URL's query string, <<>> without a "?"
QuerySegments(url) == IF "?" \in Range(url) THEN Split(After(url, "?"), "&") ELSE <<>>

\* the keys of the query string, in order
QueryKeys(url) == [i \in 1..Len(QuerySegments(url)) |-> Before(QuerySegments(url)[i], "=")]

HasParam(url, k) == \E i \in 1..Len(QuerySegments(url)) : QueryKeys(url)[i] = k

\* the value of query parameter k
ParamValue(url, k) ==
    LET segs == QuerySegments(url)
        i == CHOOSE j \in 1..Len(segs) : Before(segs[j], "=") = k
    IN After(segs[i], "=")

\* the value of attribute attr (an atom such as " src=\"") of an img tag
AttrValue(tag, attr) == Before(After(tag, attr), "\"")

Called(op) == pc = "returned" /\ call.op = op

----------------------------------------------------------------------------
(* C1 *)

\* the effective size and rating: the explicit value, the configured default
\* when the explicit value is unspecified or falsy
EffectiveSize(size) ==
    IF size = None \/ size = IntV(0) THEN GRAVATAR_DEFAULT_SIZE ELSE size
EffectiveRating(rating) ==
    IF rating = None \/ rating = StrV(<<>>) THEN GRAVATAR_DEFAULT_RATING ELSE rating

\* the keys whose effective value is truthy, in the order d, s, r
ExpectedKeys(size, rating) ==
    (IF settings.GRAVATAR_DEFAULT_IMAGE # <<>> THEN << <<"d">> >> ELSE <<>>)
    \o (IF EffectiveSize(size) # IntV(0) THEN << <<"s">> >> ELSE <<>>)
    \o (IF EffectiveRating(rating) # StrV(<<>>) THEN << <<"r">> >> ELSE <<>>)

\* C1: gravatar_for_email returns <prefix>avatar/<token>, followed by a query
\* string holding d, s, r exactly when the effective value is truthy, in the
\* order d, s, r; with all three falsy the URL has no "?" at all.
C1_UrlShape ==
    Called("gravatar_for_email") =>
        LET url == result.val.s
            base == GRAVATAR_URL_PREFIX \o <<"avatar/">> \o _get_gravatar_id(call.a.s)
            keys == ExpectedKeys(call.size, call.rating)
        IN /\ result.ok
           /\ Before(url, "?") = base
           /\ QueryKeys(url) = keys
           /\ IF keys = <<>>
              THEN url = base /\ "?" \notin Range(url)
              ELSE Count(url, "?") = 1 /\ url[Len(base) + 1] = "?"

\* a URL with only s and r (no default image), and one with no query at all
C1_Witness ==
    /\ Called("gravatar_for_email")
    /\ settings.GRAVATAR_DEFAULT_IMAGE = <<>>
    /\ call.size = IntV(5)
    /\ call.rating = StrV(<<"p", "g">>)
    /\ QueryKeys(result.val.s) = << <<"s">>, <<"r">> >>

----------------------------------------------------------------------------
(* C3 *)

\* C3: for a positive int size the retina img tag's src URL has s = 2 * size
\* while height and width are the size itself.
C3_RetinaDoublesUrlOnly ==
    (Called("gravatar_retina_img_for_email") /\ call.size.t = "int" /\ call.size.i > 0) =>
        /\ result.ok
        /\ LET tag == result.val.s
               src == AttrValue(tag, " src=\"")
           IN /\ HasParam(src, <<"s">>)
              /\ ParamValue(src, <<"s">>) = Digits(2 * call.size.i)
              /\ AttrValue(tag, " height=\"") = Digits(call.size.i)
              /\ AttrValue(tag, " width=\"") = Digits(call.size.i)

C3_Witness ==
    /\ Called("gravatar_retina_img_for_email")
    /\ call.size = IntV(5)
    /\ result.ok
    /\ ParamValue(AttrValue(result.val.s, " src=\""), <<"s">>) = <<"1", "0">>
    /\ AttrValue(result.val.s, " height=\"") = <<"5">>

----------------------------------------------------------------------------
(* C6 *)

\* C6: gravatar_for_email with an explicit 0 size returns the URL of the
\* unspecified size, the one with the configured default size, and with an
\* explicit "" rating the URL of the unspecified rating.
C6_FalsyIsUnspecified ==
    /\ (Called("gravatar_for_email") /\ call.size = IntV(0)) =>
          /\ result = Ok(StrV(gravatar_for_email(call.a.s, None, call.rating)))
          /\ IF GRAVATAR_DEFAULT_SIZE # IntV(0)
             THEN /\ HasParam(result.val.s, <<"s">>)
                  /\ ParamValue(result.val.s, <<"s">>) = Digits(GRAVATAR_DEFAULT_SIZE.i)
             ELSE ~HasParam(result.val.s, <<"s">>)
    /\ (Called("gravatar_for_email") /\ call.rating = StrV(<<>>)) =>
          result = Ok(StrV(gravatar_for_email(call.a.s, call.size, None)))

C6_Witness ==
    /\ Called("gravatar_for_email")
    /\ call.size = IntV(0)
    /\ call.rating = StrV(<<>>)
    /\ GRAVATAR_DEFAULT_SIZE = IntV(DefaultSize)
    /\ ParamValue(result.val.s, <<"s">>) = <<"8", "0">>

----------------------------------------------------------------------------
(* C7 *)

\* the bodies that are JSON documents
JsonBodies == {<<"{", "}">>, <<"[", "]">>, <<"n", "u", "l", "l">>}

\* the exceptions of a failed fetch: urlopen's IOError, the parser's ValueError
ExternalServiceError == {"IOError", "ValueError"}

\* C7: gravatar_profile_for_email opens exactly one URL,
\* <prefix><token>.json with no query string; it returns the parsed body, and
\* a network failure or a malformed body ends the call in that error.
C7_OneRequestErrorsPropagate ==
    Called("gravatar_profile_for_email") =>
        /\ Len(requests) = 1
        /\ requests[1] = GRAVATAR_URL_PREFIX \o _get_gravatar_id(call.a.s) \o <<".json">>
        /\ "?" \notin Range(requests[1])
        /\ response.kind = "IOError" => result = Raise("IOError")
        /\ (response.kind = "body" /\ response.body \in JsonBodies) =>
              result.ok /\ result = simplejson_load(response.body)
        /\ (response.kind = "body" /\ response.body \notin JsonBodies) =>
              ~result.ok /\ result.exc \in ExternalServiceError

\* a fetch that met a network failure: one request made, the error raised
C7_Witness ==
    /\ Called("gravatar_profile_for_email")
    /\ response.kind = "IOError"
    /\ Len(requests) = 1
    /\ result = Raise("IOError")

----------------------------------------------------------------------------
(* C8 *)

C8_CaseInsensitive ==
    /\ Called("gravatar_id_for_email") =>
          /\ result = Ok(StrV(_get_gravatar_id(upper(call.a.s))))
          /\ result = Ok(StrV(_get_gravatar_id(lower(call.a.s))))
    /\ Called("gravatar_for_email") =>
          Before(result.val.s, "?") =
              GRAVATAR_URL_PREFIX \o <<"avatar/">> \o _get_gravatar_id(upper(call.a.s))
    /\ Called("gravatar_profile_for_email") =>
          requests[1] =
              GRAVATAR_URL_PREFIX \o _get_gravatar_id(upper(call.a.s)) \o <<".json">>

\* a call of gravatar_id_for_email right after one on the same email
C8_Repeated ==
    (Called("gravatar_id_for_email") /\ Called("gravatar_id_for_email")'
        /\ call'.a = call.a) => result' = result

\* C8: the token of an email is the token of the email upper-cased and
\* lower-cased, the avatar URL and the profile URL embed that token, and a
\* repeated gravatar_id_for_email call on the same email returns the same token.
C8_TokenCaseInsensitiveStable == []C8_CaseInsensitive /\ [][C8_Repeated]_vars

\* the token of "A@" is the digest of "a@"
C8_Witness ==
    /\ Called("gravatar_id_for_email")
    /\ call.a = StrV(<<"A", "@">>)
    /\ result = Ok(StrV(md5_hexdigest(<<"a", "@">>)))

----------------------------------------------------------------------------
(* C9 *)

ImgOps == {"gravatar_img_for_email", "gravatar_retina_img_for_email",
           "gravatar_img_for_user", "gravatar_retina_img_for_user"}

----------------------------------------------------------------------------
(* C2 *)

ForUserOps == {"gravatar_id_for_user", "gravatar_for_user", "gravatar_img_for_user",
               "gravatar_retina_img_for_user", "gravatar_profile_for_user"}

\* the user a reference resolves to: the record itself, or the row of the username
Resolves(ref) == ref.t = "User" \/ \E u \in UserTable : u.username = ref.s
Resolved(ref) ==
    IF ref.t = "User" THEN ref ELSE CHOOSE u \in UserTable : u.username = ref.s

\* the result of the for-email operation that corresponds to a for-user one
ForEmailResult(op, email, size, rating, resp) ==
    CASE op = "gravatar_id_for_user" -> Ok(StrV(gravatar_id_for_email(email)))
      [] op = "gravatar_for_user" -> Ok(StrV(gravatar_for_email(email, size, rating)))
      [] op = "gravatar_img_for_user" -> gravatar_img_for_email(email, size, rating).res
      [] op = "gravatar_retina_img_for_user" ->
            gravatar_retina_img_for_email(email, size, rating).res
      [] op = "gravatar_profile_for_user" -> gravatar_profile_for_email(email, resp).res

\* C2: a for-user operation on a reference that resolves to user u, a User
\* record or a username, yields what the for-email operation yields on u.email,
\* and succeeds for the username whenever it succeeds for the record.
C2_ForUserIsForEmailOfResolved ==
    (pc = "returned" /\ call.op \in ForUserOps /\ Resolves(call.a)) =>
        /\ result = ForEmailResult(call.op, Resolved(call.a).email,
                                   call.size, call.rating, response)
        /\ ForEmailResult(call.op, Resolved(call.a).email,
                          call.size, call.rating, response).ok => result.ok

----------------------------------------------------------------------------
(* C4 *)

\* C4: the retina img operations called with the size unspecified (for-user:
\* on a User record) return an img tag instead of ending in an error.
C4_RetinaSizeOptional ==
    (pc = "returned" /\ call.size = None
        /\ \/ call.op = "gravatar_retina_img_for_email"
           \/ call.op = "gravatar_retina_img_for_user" /\ call.a.t = "User") =>
        /\ result.ok
        /\ Head(result.val.s) = "<img"

----------------------------------------------------------------------------
(* C5 *)

BadUser == Raise("Exception: Bad user for gravatar.")

\* C5: a for-user operation on a username no user has ends in the
\* user-not-found error, having opened no URL; on a User record it makes no lookup.
C5_UnknownUserRaises ==
    (pc = "returned" /\ call.op \in ForUserOps) =>
        /\ (call.a.t = "str" /\ ~Resolves(call.a)) => (result = BadUser /\ requests = <<>>)
        /\ call.a.t = "User" => lookups = <<>>

\* C5 holds of every call but gravatar_retina_img_for_user with no size
C5_ExceptRetinaWithoutSize ==
    (pc = "returned" /\ call.op \in ForUserOps
        /\ ~(call.op = "gravatar_retina_img_for_user" /\ call.size = None)) =>
        /\ (call.a.t = "str" /\ ~Resolves(call.a)) => (result = BadUser /\ requests = <<>>)
        /\ call.a.t = "User" => lookups = <<>>

----------------------------------------------------------------------------
(* C10 *)

\* C10: in the tag of gravatar_img_for_email, height and width are the size
\* the src URL asks for in its s parameter, whatever the size argument.
C10_DimensionsMatchUrlSize ==
    (Called("gravatar_img_for_email") /\ HasParam(AttrValue(result.val.s, " src=\""), <<"s">>)) =>
        LET tag == result.val.s
            s == ParamValue(AttrValue(tag, " src=\""), <<"s">>)
        IN AttrValue(tag, " height=\"") = s /\ AttrValue(tag, " width=\"") = s

\* C10 holds of the calls with a truthy size
C10_WithExplicitSize ==
    (Called("gravatar_img_for_email") /\ Truthy(call.size)) =>
        LET tag == result.val.s
            s == ParamValue(AttrValue(tag, " src=\""), <<"s">>)
        IN AttrValue(tag, " height=\"") = s /\ AttrValue(tag, " width=\"") = s

====
